---- MODULE Spec2Model ----
(***************************************************************************)
(* A model of synthator: the variant batch generator (batch.py), the       *)
(* per-batch pipeline and its resume protocol (batch.py, __init__.py) and  *)
(* the output normaliser (transform.py).                                   *)
(*                                                                         *)
(* Strings are sequences of one-character strings, so that the parsing and *)
(* formatting code is modelled by what it does to the characters.          *)
(***************************************************************************)
EXTENDS Integers, Sequences, FiniteSets, TLC

VARIABLES
    variant_index,   \* the input rows, in the order the source holds them
    batch_window,    \* rows per batch
    context_window,  \* width of the interval built around each variant
    gen_pc,          \* the generator: "created" | "suspended" | "exhausted"
    collected,       \* the collected (batchId, variants) groups, in frame order
    cursor,          \* number of rows of `collected` already iterated
    batch,           \* the ContextualizedVariantBatch the consumer holds: <<b>>, or <<>>
    yielded,         \* the batches yielded so far, as yielded, in yield order
    n_appended,      \* append_variant calls made on `batch` since it was yielded
    resume,          \* cli option --resume
    test_mode,       \* cli option --test-mode
    cli_context_window,  \* cli option --context-window
    output,          \* cli option --output: the output root
    store,           \* path -> <<>> (no file) or <<file>>
    pc,              \* where the cli loop stands
    loop_i,          \* the enumerate index of the batch in hand
    annotation_result,   \* process_batch: what annotate_batch returned
    transformed_result,  \* process_batch: what transform_batch returned
    log,             \* the calls made so far: [op, batch_id]
    error,           \* the exception that left the cli loop: <<>> or <<e>>
    score_calls,     \* the score_variants calls made: arguments and outcome
    tidy_frame,      \* the argument of transform_output
    selected_frame,  \* transform_output: the frame after the first select
    normalized,      \* transform_output: the rows of the returned frame
    t_pc,            \* "input" before transform_output has run, "output" after
    p_call,          \* a call of a converter or parser: kind, parts, argument
    p_trace          \* the outcomes of that call and of the calls chained to it

batchVars == <<variant_index, batch_window, context_window, gen_pc, collected,
               cursor, batch, yielded, n_appended>>

driverVars == <<resume, test_mode, cli_context_window, output, store, pc, loop_i, annotation_result,
                transformed_result, log, error, score_calls>>

transformVars == <<tidy_frame, selected_frame, normalized, t_pc, p_call,
                   p_trace>>

vars == <<batchVars, driverVars, transformVars>>

(***************************************************************************)
(* Bounds of the model.                                                    *)
(***************************************************************************)
MaxRows == 3
MaxWindow == 2
MaxAppend == 1
MaxTidy == 2

\* Rows of the variant index of a run that is interrupted and run again.
MaxResumeRows == 2

(***************************************************************************)
(* Characters and strings.                                                 *)
(***************************************************************************)
\* The characters the model uses, in ascending code point order.
AsciiOrder ==
    <<"(", ")", ",", "-", "0", "1", "2", "3", "4", "5", "6", "7", "8", "9",
      ":", "=", ">", "A", "C", "G", "M", "T", "X", "Y", "_", "c", "h", "r">>

Ord(c) == CHOOSE i \in 1..Len(AsciiOrder) : AsciiOrder[i] = c

\* Python/polars string order: by code point, a proper prefix first.
RECURSIVE StrLess(_, _)
StrLess(a, b) ==
    IF b = <<>> THEN FALSE
    ELSE IF a = <<>> THEN TRUE
    ELSE IF Head(a) # Head(b) THEN Ord(Head(a)) < Ord(Head(b))
    ELSE StrLess(Tail(a), Tail(b))

Digits == <<"0", "1", "2", "3", "4", "5", "6", "7", "8", "9">>

\* str(n) / f"{n}" for a non-negative integer.
RECURSIVE IntToStr(_)
IntToStr(n) ==
    IF n < 10 THEN <<Digits[n + 1]>>
    ELSE IntToStr(n \div 10) \o <<Digits[(n % 10) + 1]>>

StartsWith(s, p) == Len(s) >= Len(p) /\ SubSeq(s, 1, Len(p)) = p

(***************************************************************************)
(* transform.py: chromosome naming.                                        *)
(***************************************************************************)
ensembl_to_ucsc(chromosome) ==
    IF chromosome = <<"M", "T">> THEN <<"c", "h", "r", "M">>
    ELSE <<"c", "h", "r">> \o chromosome

\* str.removeprefix("chr")
RemovePrefixChr(s) ==
    IF StartsWith(s, <<"c", "h", "r">>) THEN SubSeq(s, 4, Len(s)) ELSE s

\* A conversion that only strips the prefix.
ucsc_to_ensembl_strip_only(chromosome) == RemovePrefixChr(chromosome)

ucsc_to_ensembl(chromosome) ==
    IF chromosome = <<"c", "h", "r", "M">> THEN <<"M", "T">>
    ELSE RemovePrefixChr(chromosome)

(***************************************************************************)
(* Nullable cells of a data frame: <<>> is null, <<v>> holds the value v.  *)
(***************************************************************************)
Null == <<>>

Some(v) == <<v>>

IsNull(c) == c = <<>>

IsNotNull(c) == c # <<>>

(***************************************************************************)
(* String expressions of the frame library, as transform.py uses them.     *)
(***************************************************************************)
\* The least index i >= from with s[i..] starting with pat, or 0.
FindFrom(s, pat, from) ==
    LET hits == {i \in from..(Len(s) - Len(pat) + 1) :
                    SubSeq(s, i, i + Len(pat) - 1) = pat}
    IN IF hits = {} THEN 0
       ELSE CHOOSE i \in hits : \A j \in hits : i <= j

\* str.split(sep) for a one-character sep: the pieces between separators.
RECURSIVE Split(_, _)
Split(s, sep) ==
    LET i == FindFrom(s, <<sep>>, 1)
    IN IF i = 0 THEN <<s>>
       ELSE <<SubSeq(s, 1, i - 1)>> \o Split(SubSeq(s, i + 1, Len(s)), sep)

\* str.split on a nullable string cell: a nullable list cell.
StrSplit(c, sep) == IF IsNull(c) THEN Null ELSE Some(Split(c[1], sep))

\* list.get(i), zero-based, on a nullable list cell; null when the list is
\* null, and when it has no item i and the library gives null for that (see
\* parse_variant_id_raises for the library that raises).
ListGet(c, i) ==
    IF IsNull(c) \/ i >= Len(c[1]) THEN Null ELSE Some(c[1][i + 1])

\* str.replace(literal, value): the first occurrence only.
ReplaceFirst(s, pat, value) ==
    LET i == FindFrom(s, pat, 1)
    IN IF i = 0 THEN s
       ELSE SubSeq(s, 1, i - 1) \o value \o SubSeq(s, i + Len(pat), Len(s))

StrReplace(c, pat, value) ==
    IF IsNull(c) THEN Null ELSE Some(ReplaceFirst(c[1], pat, value))

\* str.replace("^M$", "MT"): only the string that is exactly "M" matches.
StrReplaceWholeM(c) ==
    IF IsNull(c) THEN Null
    ELSE IF c[1] = <<"M">> THEN Some(<<"M", "T">>) ELSE c

DigitChars == {Digits[i] : i \in 1..10}

WordChars ==
    DigitChars \cup {"_"} \cup
    {"A", "B", "C", "D", "E", "F", "G", "H", "I", "J", "K", "L", "M", "N",
     "O", "P", "Q", "R", "S", "T", "U", "V", "W", "X", "Y", "Z",
     "a", "b", "c", "d", "e", "f", "g", "h", "i", "j", "k", "l", "m", "n",
     "o", "p", "q", "r", "s", "t", "u", "v", "w", "x", "y", "z"}

\* The longest run of characters of class starting at s[i] (may be empty).
RECURSIVE RunFrom(_, _, _)
RunFrom(s, i, class) ==
    IF i > Len(s) \/ s[i] \notin class THEN <<>>
    ELSE <<s[i]>> \o RunFrom(s, i + 1, class)

\* str.extract(pat ++ "(class+)", 1): the leftmost place where pat is followed
\* by at least one character of class; the captured run, greedy; else null.
ExtractAfter(c, pat, class) ==
    IF IsNull(c) THEN Null
    ELSE LET s == c[1]
             hits == {i \in 1..(Len(s) - Len(pat)) :
                         /\ SubSeq(s, i, i + Len(pat) - 1) = pat
                         /\ s[i + Len(pat)] \in class}
         IN IF hits = {} THEN Null
            ELSE LET i == CHOOSE k \in hits : \A j \in hits : k <= j
                 IN Some(RunFrom(s, i + Len(pat), class))

\* str.extract("^(\w+)\(", 1): the word at the start, when "(" follows it.
ExtractLeadingWord(c) ==
    IF IsNull(c) THEN Null
    ELSE LET w == RunFrom(c[1], 1, WordChars)
         IN IF w # <<>> /\ Len(c[1]) > Len(w) /\ c[1][Len(w) + 1] = "("
            THEN Some(w) ELSE Null

DigitValue(d) == (CHOOSE i \in 1..10 : Digits[i] = d) - 1

RECURSIVE DecimalValue(_)
DecimalValue(s) ==
    IF s = <<>> THEN 0
    ELSE 10 * DecimalValue(SubSeq(s, 1, Len(s) - 1)) + DigitValue(s[Len(s)])

\* cast of a nullable string cell of decimal digits to an integer cell.
CastInt(c) == IF IsNull(c) THEN Null ELSE Some(DecimalValue(c[1]))

\* concat_str(..., separator): null when any part is null.
RECURSIVE JoinWith(_, _)
JoinWith(parts, sep) ==
    IF Len(parts) = 1 THEN parts[1]
    ELSE parts[1] \o sep \o JoinWith(Tail(parts), sep)

ConcatStr(cells, sep) ==
    IF \E i \in 1..Len(cells) : IsNull(cells[i]) THEN Null
    ELSE Some(JoinWith([i \in 1..Len(cells) |-> cells[i][1]], sep))

(***************************************************************************)
(* transform.py: the parsers of the tidy columns.                          *)
(***************************************************************************)
kChr == <<"c", "h", "r">>

parse_variant_id(variant_id) ==
    LET parts == StrSplit(variant_id, ":")
        chr == StrReplaceWholeM(StrReplace(ListGet(parts, 0), kChr, <<>>))
        pos == ListGet(parts, 1)
        alleles == StrSplit(ListGet(parts, 2), ">")
        ref == ListGet(alleles, 0)
        alt == ListGet(alleles, 1)
    IN ConcatStr(<<chr, pos, ref, alt>>, <<"_">>)

scored_interval_to_interval_struct(scored_interval) ==
    LET parts == StrSplit(scored_interval, ":")
        range == StrSplit(ListGet(parts, 1), "-")
    IN [chromosome |->
            StrReplaceWholeM(StrReplace(ListGet(parts, 0), kChr, <<>>)),
        start |-> CastInt(ListGet(range, 0)),
        end |-> CastInt(ListGet(range, 1))]

kRequestedOutput ==
    <<"r", "e", "q", "u", "e", "s", "t", "e", "d", "_",
      "o", "u", "t", "p", "u", "t", "=">>

kWidth == <<"w", "i", "d", "t", "h", "=">>

kAggregationType ==
    <<"a", "g", "g", "r", "e", "g", "a", "t", "i", "o", "n", "_",
      "t", "y", "p", "e", "=">>

\* A parser that gives width 0 where no number follows "width=".
parse_scorer_zero_width(scorer) ==
    [scorerName |-> ExtractLeadingWord(scorer),
     requestedOutput |-> ExtractAfter(scorer, kRequestedOutput, WordChars),
     width |-> IF IsNull(scorer) THEN Null
               ELSE IF IsNull(ExtractAfter(scorer, kWidth, DigitChars))
               THEN Some(0)
               ELSE CastInt(ExtractAfter(scorer, kWidth, DigitChars)),
     aggregationType |-> ExtractAfter(scorer, kAggregationType, WordChars)]

parse_scorer(scorer) ==
    [scorerName |-> ExtractLeadingWord(scorer),
     requestedOutput |-> ExtractAfter(scorer, kRequestedOutput, WordChars),
     width |-> CastInt(ExtractAfter(scorer, kWidth, DigitChars)),
     aggregationType |-> ExtractAfter(scorer, kAggregationType, WordChars)]

(***************************************************************************)
(* transform.py: when evaluating the parsers raises.                       *)
(***************************************************************************)
\* list.get(i) asks for an item the list does not have.
OutOfBounds(c, i) == IsNotNull(c) /\ i >= Len(c[1])

\* parse_variant_id: list.get is called without null_on_oob, so whether an
\* item out of bounds is null or an error is the default of the frame
\* library in use (null_on_oob); with the error, the evaluation raises.
parse_variant_id_raises(variant_id, null_on_oob) ==
    LET parts == StrSplit(variant_id, ":")
        alleles == StrSplit(ListGet(parts, 2), ">")
    IN /\ ~null_on_oob
       /\ \/ OutOfBounds(parts, 0)
          \/ OutOfBounds(parts, 1)
          \/ OutOfBounds(parts, 2)
          \/ OutOfBounds(alleles, 0)
          \/ OutOfBounds(alleles, 1)

\* The digits of the largest 32-bit signed integer, 2147483647.
Int32MaxDigits == <<"2", "1", "4", "7", "4", "8", "3", "6", "4", "7">>

RECURSIVE StripLeadingZeros(_)
StripLeadingZeros(digits) ==
    IF Len(digits) > 1 /\ Head(digits) = "0"
    THEN StripLeadingZeros(Tail(digits)) ELSE digits

\* Numeric order of two digit strings of the same length.
RECURSIVE DigitsLessOrEqual(_, _)
DigitsLessOrEqual(a, b) ==
    IF a = <<>> THEN TRUE
    ELSE IF Head(a) # Head(b) THEN DigitValue(Head(a)) < DigitValue(Head(b))
    ELSE DigitsLessOrEqual(Tail(a), Tail(b))

\* Whether the number written by the digits is an Int32.
FitsInt32(digits) ==
    LET d == StripLeadingZeros(digits)
    IN \/ Len(d) < Len(Int32MaxDigits)
       \/ Len(d) = Len(Int32MaxDigits) /\ DigitsLessOrEqual(d, Int32MaxDigits)

\* parse_scorer: the strict cast of the width digits to Int32 raises when the
\* number does not fit.
parse_scorer_raises(scorer) ==
    LET digits == ExtractAfter(scorer, kWidth, DigitChars)
    IN IsNotNull(digits) /\ ~FitsInt32(digits[1])

\* What a call gives: a value, or an exception.
Outcome(raised, value) == [raised |-> raised, value |-> value]

(***************************************************************************)
(* transform.py: the feature structs and transform_output.                 *)
(***************************************************************************)
transform_junction_based_features(gene_id, gene_name, gene_type, gene_strand, junction_start, junction_end, quantile_score, raw_score, variant_scorer) ==
    [geneId |-> gene_id,
     geneSymbol |-> gene_name,
     geneType |-> gene_type,
     geneStrand |-> gene_strand,
     junctionStart |-> junction_start,
     junctionEnd |-> junction_end,
     quantileScore |-> quantile_score,
     rawScore |-> raw_score,
     variantScorer |-> variant_scorer]

transform_gene_based_features(gene_id, gene_name, gene_type, gene_strand, quantile_score, raw_score, variant_scorer) ==
    [geneId |-> gene_id,
     geneSymbol |-> gene_name,
     geneType |-> gene_type,
     geneStrand |-> gene_strand,
     quantileScore |-> quantile_score,
     rawScore |-> raw_score,
     variantScorer |-> variant_scorer]

transform_variant_based_features(quantile_score, raw_score, variant_scorer) ==
    [quantileScore |-> quantile_score,
     rawScore |-> raw_score,
     variantScorer |-> variant_scorer]

capture_biosample(ontology_curie, biosample_name, biosample_type, biosample_life_stage, gtex_tissue, genetically_modified) ==
    [ontologyCurie |-> ontology_curie,
     biosampleName |-> biosample_name,
     biosampleType |-> biosample_type,
     biosampleLifeStage |-> biosample_life_stage,
     gtexTissue |-> gtex_tissue,
     geneticallyModified |-> genetically_modified]

\* The gene-level branch without its test of the junction start.
IsGeneLevelIgnoringJunction(r) == IsNotNull(r.gene_id)

\* The conditions of the three when/then expressions.
IsGeneLevel(r) == IsNotNull(r.gene_id) /\ IsNull(r.junction_Start)

IsJunctionLevel(r) == IsNotNull(r.gene_id) /\ IsNotNull(r.junction_Start)

IsVariantLevel(r) == IsNull(r.gene_id)

\* The first select of transform_output, for one tidy row: the parsed
\* identifiers, the three when/then feature columns (null where the condition
\* does not hold) and the columns carried through.
SelectRow(r) ==
    LET vsc == parse_scorer(r.variant_scorer)
    IN [variantId |-> parse_variant_id(r.variant_id),
        interval |-> scored_interval_to_interval_struct(r.scored_interval),
        geneBasedFeatures |->
            IF IsGeneLevel(r)
            THEN Some(transform_gene_based_features(
                          r.gene_id, r.gene_name, r.gene_type, r.gene_strand,
                          r.quantile_score, r.raw_score, vsc))
            ELSE Null,
        spliceJunctionFeatures |->
            IF IsJunctionLevel(r)
            THEN Some(transform_junction_based_features(
                          r.gene_id, r.gene_name, r.gene_type, r.gene_strand,
                          r.junction_Start, r.junction_End,
                          r.quantile_score, r.raw_score, vsc))
            ELSE Null,
        variantBasedFeatures |->
            IF IsVariantLevel(r)
            THEN Some(transform_variant_based_features(
                          r.quantile_score, r.raw_score, vsc))
            ELSE Null,
        track_name |-> r.track_name,
        track_strand |-> r.track_strand,
        Assay_title |-> r.Assay_title,
        transcription_factor |-> r.transcription_factor,
        histone_mark |-> r.histone_mark,
        endedness |-> r.endedness,
        ontology_curie |-> r.ontology_curie,
        biosample_name |-> r.biosample_name,
        biosample_type |-> r.biosample_type,
        biosample_life_stage |-> r.biosample_life_stage,
        gtex_tissue |-> r.gtex_tissue,
        genetically_modified |-> r.genetically_modified,
        dataSource |-> r.data_source]

SelectFrame(tidy_data) == [i \in 1..Len(tidy_data) |-> SelectRow(tidy_data[i])]

\* The key of the first group_by.
FirstKey(p) ==
    [variantId |-> p.variantId,
     interval |-> p.interval,
     track_name |-> p.track_name,
     track_strand |-> p.track_strand,
     Assay_title |-> p.Assay_title,
     transcription_factor |-> p.transcription_factor,
     histone_mark |-> p.histone_mark,
     endedness |-> p.endedness,
     ontology_curie |-> p.ontology_curie,
     biosample_name |-> p.biosample_name,
     biosample_type |-> p.biosample_type,
     biosample_life_stage |-> p.biosample_life_stage,
     gtex_tissue |-> p.gtex_tissue,
     genetically_modified |-> p.genetically_modified]

Column(frame, name) == [i \in 1..Len(frame) |-> frame[i][name]]

\* group_by(first key).agg(the three feature columns): one row per key, each
\* feature column the list of the group's cells (nulls included) in row order.
FirstGroups(selected) ==
    {LET InGroup(p) == FirstKey(p) = k
         rows == SelectSeq(selected, InGroup)
     IN [key |-> k,
         variantBasedFeatures |-> Column(rows, "variantBasedFeatures"),
         geneBasedFeatures |-> Column(rows, "geneBasedFeatures"),
         spliceJunctionFeatures |-> Column(rows, "spliceJunctionFeatures")]
     : k \in {FirstKey(selected[i]) : i \in 1..Len(selected)}}

\* A second group_by that still carries the track name in its key.
SecondKeyWithTrack(g) ==
    [variantId |-> g.key.variantId,
     interval |-> g.key.interval,
     biosampleMetadata |->
         capture_biosample(g.key.ontology_curie, g.key.biosample_name,
                           g.key.biosample_type, g.key.biosample_life_stage,
                           g.key.gtex_tissue, g.key.genetically_modified),
     track_name |-> g.key.track_name]

\* The key of the second group_by: variantId, interval and the biosample
\* struct built by the select between the two.
SecondKey(g) ==
    [variantId |-> g.key.variantId,
     interval |-> g.key.interval,
     biosampleMetadata |->
         capture_biosample(g.key.ontology_curie, g.key.biosample_name,
                           g.key.biosample_type, g.key.biosample_life_stage,
                           g.key.gtex_tissue, g.key.genetically_modified)]

\* A flattening that keeps each distinct feature struct once.
FlattenedFeaturesDistinct(groups, name) ==
    LET slots == UNION {{<<g, i>> : i \in 1..Len(g[name])} : g \in groups}
        filled == {s \in slots : IsNotNull(s[1][name][s[2]])}
    IN [x \in {s[1][name][s[2]][1] : s \in filled} |-> 1]

\* The second agg and the final select for one feature column over the first
\* groups of one second key: the lists are nested, exploded and stripped of
\* nulls.  The order of the items follows the order of the first groups, which
\* group_by does not fix, so the list is kept as a bag: item -> occurrences.
FlattenedFeatures(groups, name) ==
    LET slots == UNION {{<<g, i>> : i \in 1..Len(g[name])} : g \in groups}
        filled == {s \in slots : IsNotNull(s[1][name][s[2]])}
    IN [x \in {s[1][name][s[2]][1] : s \in filled} |->
           Cardinality({s \in filled : s[1][name][s[2]][1] = x})]

\* transform_output: the rows of the returned frame.  After unique() the frame
\* holds each row once, in an order polars does not fix: a set of rows.
transform_output(tidy_data) ==
    LET first == FirstGroups(SelectFrame(tidy_data))
    IN {LET groups == {g \in first : SecondKey(g) = k}
        IN [variantId |-> k.variantId,
            interval |-> k.interval,
            biosampleMetadata |-> k.biosampleMetadata,
            variantBasedFeatures |->
                FlattenedFeatures(groups, "variantBasedFeatures"),
            geneBasedFeatures |->
                FlattenedFeatures(groups, "geneBasedFeatures"),
            spliceJunctionFeatures |->
                FlattenedFeatures(groups, "spliceJunctionFeatures")]
        : k \in {SecondKey(g) : g \in first}}

(***************************************************************************)
(* The tidy frames of the scorer (variant_scorers.tidy_scores).            *)
(***************************************************************************)
Str1(a) == <<a>>

Str2(a, b) == <<a, b>>

\* "S(requested_output=R, width=5)" and "J()"
ScorerWithWidth ==
    <<"S", "(">> \o kRequestedOutput \o <<"R", ",", " ">> \o kWidth
        \o <<"5", ")">>

ScorerNoParameters == <<"J", "(", ")">>

\* "chr1:5:A>T" and "chrM:12:AC>A"
VariantIdChr1 == <<"c", "h", "r", "1", ":", "5", ":", "A", ">", "T">>

VariantIdChrM ==
    <<"c", "h", "r", "M", ":", "1", "2", ":", "A", "C", ">", "A">>

\* "chr1:3-7"
ScoredIntervalChr1 == <<"c", "h", "r", "1", ":", "3", "-", "7">>

\* One row of the tidy frame.  Scores are floats in the program; the model
\* carries them as small integers, since they are only copied.
TidyRow(variant_id, variant_scorer, gene_id, junction_Start, quantile_score, ontology_curie) ==
    [variant_id |-> variant_id,
     scored_interval |-> Some(ScoredIntervalChr1),
     variant_scorer |-> Some(variant_scorer),
     raw_score |-> Some(1),
     quantile_score |-> quantile_score,
     data_source |-> Some(Str1("E")),
     gene_id |-> gene_id,
     gene_name |-> IF IsNull(gene_id) THEN Null ELSE Some(Str1("N")),
     gene_type |-> IF IsNull(gene_id) THEN Null ELSE Some(Str1("P")),
     gene_strand |-> IF IsNull(gene_id) THEN Null ELSE Some(Str1("+")),
     junction_Start |-> junction_Start,
     junction_End |-> IF IsNull(junction_Start) THEN Null ELSE Some(9),
     track_name |-> Some(Str1("t")),
     track_strand |-> Some(Str1("+")),
     Assay_title |-> Some(Str1("a")),
     ontology_curie |-> ontology_curie,
     biosample_name |-> Some(Str1("K")),
     biosample_type |-> Some(Str1("c")),
     biosample_life_stage |-> Some(Str1("a")),
     endedness |-> Null,
     genetically_modified |-> Some(FALSE),
     transcription_factor |-> Null,
     histone_mark |-> Null,
     gtex_tissue |-> Null]

\* The row r reported for another track or another GTEx tissue.
WithTrack(r, track_name, gtex_tissue) ==
    [r EXCEPT !.track_name = track_name, !.gtex_tissue = gtex_tissue]

TidyRows ==
    {TidyRow(Some(v), sc, g, j, Some(2), c) :
        v \in {VariantIdChr1, VariantIdChrM},
        sc \in {ScorerWithWidth},
        g \in {Null, Some(Str2("G", "1"))},
        j \in {Null, Some(4)},
        c \in {Null, Some(Str2("C", "L"))}}
    \cup {TidyRow(Some(VariantIdChr1), ScorerNoParameters, Null, Null, Null,
                  Null)}
    \cup {WithTrack(TidyRow(Some(VariantIdChr1), ScorerWithWidth, Null, Null,
                            Some(2), Null), Some(Str1(t)), g) :
             t \in {"t", "u"}, g \in {Null, Some(Str1("L"))}}

(***************************************************************************)
(* context.py: ContextualizedVariant.from_variant.                         *)
(***************************************************************************)
\* Python values of the optional batch_id argument, tagged with their type.
PyNone == [kind |-> "none", v |-> 0]

PyInt(n) == [kind |-> "int", v |-> n]

PyStr(s) == [kind |-> "str", v |-> s]

\* Python truthiness: None, 0 and "" are falsy.
Truthy(x) ==
    CASE x.kind = "none" -> FALSE
      [] x.kind = "int" -> x.v # 0
      [] x.kind = "str" -> x.v # <<>>

VariantName(chromosome, position, reference_bases, alternate_bases) ==
    chromosome \o <<"_">> \o IntToStr(position) \o <<"_">>
        \o reference_bases \o <<"_">> \o alternate_bases

\* Variant.reference_interval.resize(width): the variant's own interval
\* [position - 1, position - 1 + len(ref)) resized about its centre.
ResizedInterval(chromosome, position, reference_bases, width) ==
    LET start0 == position - 1
        end0 == position - 1 + Len(reference_bases)
        center == (start0 + end0) \div 2
        start == center - (width \div 2)
    IN [chromosome |-> chromosome, start |-> start, end |-> start + width]

from_variant(chromosome, position, reference_bases, alternate_bases, window_size, batch_id) ==
    [variant |->
        [chromosome |-> chromosome,
         position |-> position,
         reference_bases |-> reference_bases,
         alternate_bases |-> alternate_bases,
         name |-> VariantName(chromosome, position, reference_bases,
                              alternate_bases),
         info |-> IF Truthy(batch_id) THEN {<<"batchId", batch_id>>} ELSE {}],
     interval |-> ResizedInterval(chromosome, position, reference_bases,
                                  window_size)]

(***************************************************************************)
(* batch.py: ContextualizedVariantBatch.                                   *)
(***************************************************************************)
\* The dataclass constructor: n_variants defaults to 0 when not passed.
NewBatch(interval_variants, batch_id) ==
    [interval_variants |-> interval_variants,
     batch_id |-> batch_id,
     n_variants |-> 0]

append_variant(b, variant) ==
    [b EXCEPT !.interval_variants = Append(@, variant),
              !.n_variants = @ + 1]

(***************************************************************************)
(* batch.py: VariantBatchGenerator.                                        *)
(***************************************************************************)
\* A sort on (chromosome, position) alone, which leaves the alleles untied.
RowLessChromosomePosition(a, b) ==
    IF a.chromosome # b.chromosome THEN StrLess(a.chromosome, b.chromosome)
    ELSE a.position < b.position

\* The sort key order of (chromosome, position, referenceAllele,
\* alternateAllele), ascending: strings by code point, position numerically.
RowLess(a, b) ==
    IF a.chromosome # b.chromosome THEN StrLess(a.chromosome, b.chromosome)
    ELSE IF a.position # b.position THEN a.position < b.position
    ELSE IF a.referenceAllele # b.referenceAllele
         THEN StrLess(a.referenceAllele, b.referenceAllele)
    ELSE StrLess(a.alternateAllele, b.alternateAllele)

\* Insert row r into the sorted sequence s, after the rows not greater.
RECURSIVE InsertRow(_, _)
InsertRow(s, r) ==
    IF s = <<>> THEN <<r>>
    ELSE IF RowLess(r, Head(s)) THEN <<r>> \o s
    ELSE <<Head(s)>> \o InsertRow(Tail(s), r)

\* The frame without the sort: the rows in the order of the index.
UnsortedRows(rows) == rows

RECURSIVE SortRows(_)
SortRows(rows) ==
    IF rows = <<>> THEN <<>>
    ELSE InsertRow(SortRows(SubSeq(rows, 1, Len(rows) - 1)), rows[Len(rows)])

\* Rounding the quotient up instead of down.
batch_id_ceil(row_number, window) == (row_number + window - 1) \div window

\* row_number // batch_window
batch_id_of(row_number, window) == row_number \div window

\* sort(...).with_row_index("rowNumber").with_columns(batchId=...): the sorted
\* rows, each with its zero-based row number and its batch id.
NumberedRows(index, window) ==
    LET sorted == SortRows(index)
    IN [i \in 1..Len(sorted) |->
           [rowNumber |-> i - 1,
            batchId |-> batch_id_of(i - 1, window),
            row |-> sorted[i]]]

\* A group that also takes the rows of the earlier batch ids.
RECURSIVE SelectBatchUpTo(_, _)
SelectBatchUpTo(numbered, id) ==
    IF numbered = <<>> THEN <<>>
    ELSE IF Head(numbered).batchId <= id
         THEN <<Head(numbered).row>> \o SelectBatchUpTo(Tail(numbered), id)
    ELSE SelectBatchUpTo(Tail(numbered), id)

RECURSIVE SelectBatch(_, _)
SelectBatch(numbered, id) ==
    IF numbered = <<>> THEN <<>>
    ELSE IF Head(numbered).batchId = id
         THEN <<Head(numbered).row>> \o SelectBatch(Tail(numbered), id)
    ELSE SelectBatch(Tail(numbered), id)

\* group_by("batchId").agg(struct(...)): one (batchId, variants) group per
\* distinct batch id, the rows of a group in frame order.
Groups(index, window) ==
    LET numbered == NumberedRows(index, window)
        ids == {numbered[i].batchId : i \in 1..Len(numbered)}
    IN {[batchId |-> id, variants |-> SelectBatch(numbered, id)] : id \in ids}

\* The rows of a grouped frame in some order, each group exactly once.
GroupOrders(gs) ==
    LET n == Cardinality(gs)
    IN {f \in [1..n -> gs] : \A i, j \in 1..n : i # j => f[i] # f[j]}

\* The body of the for loop over collected.iter_rows() for one group.
BuildBatch(group, window_size) ==
    NewBatch(
        [k \in 1..Len(group.variants) |->
            from_variant(ensembl_to_ucsc(group.variants[k].chromosome),
                         group.variants[k].position,
                         group.variants[k].referenceAllele,
                         group.variants[k].alternateAllele,
                         window_size,
                         PyInt(group.batchId))],
        group.batchId)

(***************************************************************************)
(* Inputs.                                                                 *)
(***************************************************************************)
Row(c, p, r, a) ==
    [chromosome |-> c, position |-> p, referenceAllele |-> r,
     alternateAllele |-> a]

IndexRows ==
    {Row(<<"2">>, 5, <<"A">>, <<"T">>),
     Row(<<"1", "0">>, 5, <<"A">>, <<"T">>),
     Row(<<"1", "0">>, 5, <<"A">>, <<"G">>),
     Row(<<"M", "T">>, 12, <<"A", "C">>, <<"A">>)}

\* The variants a caller appends to a batch it holds.
AppendRows == {Row(<<"M", "T">>, 12, <<"A", "C">>, <<"A">>)}

SeqsUpTo(S, n) == UNION {[1..k -> S] : k \in 0..n}

\* The frames collect() can return, for every index and batch_window of the
\* inputs: group_by is called without maintain_order, so the groups come in
\* an order polars does not fix.
AggregatedFrames ==
    {[index |-> index,
      window |-> window,
      frames |-> {frame : frame \in GroupOrders(Groups(index, window))}] :
        index \in SeqsUpTo(IndexRows, MaxRows), window \in 1..MaxWindow}

\* _aggregate_variants_by_batch(variant_index, batch_window).collect()
AggregateOrders(index, window) ==
    (CHOOSE t \in AggregatedFrames :
        t.index = index /\ t.window = window).frames

\* The values of the variables a specification does not use.
DriverIdle ==
    /\ resume = FALSE
    /\ test_mode = FALSE
    /\ cli_context_window = 0
    /\ output = <<>>
    /\ store = <<>>
    /\ pc = "idle"
    /\ loop_i = 0
    /\ annotation_result = Null
    /\ transformed_result = Null
    /\ log = <<>>
    /\ error = Null
    /\ score_calls = <<>>

TransformIdle ==
    /\ tidy_frame = <<>>
    /\ selected_frame = <<>>
    /\ normalized = {}
    /\ t_pc = "idle"
    /\ p_call = [kind |-> "idle"]
    /\ p_trace = <<>>

BatchIdle ==
    /\ variant_index = <<>>
    /\ batch_window = 1
    /\ context_window = 4
    /\ gen_pc = "idle"
    /\ collected = <<>>
    /\ cursor = 0
    /\ batch = <<>>
    /\ yielded = <<>>
    /\ n_appended = 0

(***************************************************************************)
(* The generator, driven by a consumer that drains it.                     *)
(***************************************************************************)
InitBatch ==
    /\ variant_index \in SeqsUpTo(IndexRows, MaxRows)
    /\ batch_window \in 1..MaxWindow
    /\ context_window = 4
    /\ gen_pc = "created"
    /\ collected = <<>>
    /\ cursor = 0
    /\ batch = <<>>
    /\ yielded = <<>>
    /\ n_appended = 0
    /\ DriverIdle
    /\ TransformIdle

\* next() on the generator: the first call collects the aggregated frame;
\* every call then builds and yields the batch of the next group, or ends.
GenNext ==
    /\ gen_pc \in {"created", "suspended"}
    /\ \E frame \in (IF gen_pc = "created"
                     THEN AggregateOrders(variant_index, batch_window)
                     ELSE {collected}) :
          /\ collected' = frame
          /\ IF cursor < Len(frame)
             THEN /\ batch' = <<BuildBatch(frame[cursor + 1], context_window)>>
                  /\ cursor' = cursor + 1
                  /\ gen_pc' = "suspended"
                  /\ yielded' = Append(yielded, BuildBatch(frame[cursor + 1],
                                                          context_window))
                  /\ n_appended' = 0
             ELSE /\ gen_pc' = "exhausted"
                  /\ UNCHANGED <<batch, cursor, yielded, n_appended>>
    /\ UNCHANGED <<variant_index, batch_window, context_window>>
    /\ UNCHANGED <<driverVars, transformVars>>

\* ContextualizedVariantBatch.append_variant on the batch the consumer holds.
AppendVariant ==
    /\ batch # <<>>
    /\ n_appended < MaxAppend
    /\ \E r \in AppendRows :
          batch' = <<append_variant(batch[1],
                      from_variant(ensembl_to_ucsc(r.chromosome), r.position,
                                   r.referenceAllele, r.alternateAllele,
                                   context_window, PyInt(batch[1].batch_id)))>>
    /\ n_appended' = n_appended + 1
    /\ UNCHANGED <<variant_index, batch_window, context_window, gen_pc,
                   collected, cursor, yielded>>
    /\ UNCHANGED <<driverVars, transformVars>>

NextBatch == GenNext \/ AppendVariant

SpecBatch == InitBatch /\ [][NextBatch]_vars

(***************************************************************************)
(* The generator called with any configuration values: batch.py and        *)
(* context.py test neither batch_window nor window_size, so what happens   *)
(* for a value below 1 is what the frame library and the interval type do. *)
(***************************************************************************)
\* row_number // batch_window as the frame library computes it: null when the
\* divisor is 0, the floor of the quotient otherwise.
batch_id_cell(row_number, window) ==
    IF window = 0 THEN PyNone
    ELSE IF window > 0 THEN PyInt(batch_id_of(row_number, window))
    ELSE PyInt(0 - ((row_number + (0 - window) - 1) \div (0 - window)))

\* The (batchId, variants) groups for any batch_window; group_by keeps the
\* rows of a null batch id together as one group.
ConfigGroups(index, window) ==
    LET sorted == SortRows(index)
        id(i) == batch_id_cell(i - 1, window)
    IN {[batchId |-> b,
         variants |-> LET Member(i) == id(i) = b
                          picked == SelectSeq([i \in 1..Len(sorted) |-> i],
                                              Member)
                      IN [k \in 1..Len(picked) |-> sorted[picked[k]]]] :
           b \in {id(i) : i \in 1..Len(sorted)}}

\* The loop body of batch_variant_index for one group, the batch id as read
\* from the frame.
BuildConfigBatch(group, window_size) ==
    NewBatch(
        [k \in 1..Len(group.variants) |->
            from_variant(ensembl_to_ucsc(group.variants[k].chromosome),
                         group.variants[k].position,
                         group.variants[k].referenceAllele,
                         group.variants[k].alternateAllele,
                         window_size,
                         group.batchId)],
        group.batchId)

\* The values the two windows are given.
ConfigBatchWindows == {-1, 0, 1, 2}

ConfigContextWindows == {-2, 0, 4}

\* Whether collect() can raise: the row index is unsigned, and the division
\* of an unsigned column by a negative literal is either computed in a signed
\* type or rejected, by the version of the frame library.
CollectCanRaise(window) == window < 0

\* Whether Interval.resize(width) can raise: the interval type is not part of
\* the repository; a width below 1 is one it may reject or accept.
ResizeCanRaise(width) == width < 1

InitConfig ==
    /\ variant_index \in SeqsUpTo(IndexRows, MaxRows)
    /\ batch_window \in ConfigBatchWindows
    /\ context_window \in ConfigContextWindows
    /\ gen_pc = "created"
    /\ collected = <<>>
    /\ cursor = 0
    /\ batch = <<>>
    /\ yielded = <<>>
    /\ n_appended = 0
    /\ DriverIdle
    /\ TransformIdle

\* next() on the generator: the first call collects the aggregated frame.
ConfigCollect ==
    /\ gen_pc = "created"
    /\ \/ /\ collected' \in GroupOrders(ConfigGroups(variant_index,
                                                     batch_window))
          /\ gen_pc' = "collected"
       \/ /\ CollectCanRaise(batch_window)
          /\ collected' = collected
          /\ gen_pc' = "raised"
    /\ UNCHANGED <<variant_index, batch_window, context_window, cursor, batch,
                   yielded, n_appended, driverVars, transformVars>>

\* ... and every call then builds and yields the batch of the next group,
\* ends, or raises what from_variant raises.
ConfigYield ==
    /\ gen_pc \in {"collected", "suspended"}
    /\ IF cursor < Len(collected)
       THEN \/ /\ batch' = <<BuildConfigBatch(collected[cursor + 1],
                                              context_window)>>
               /\ yielded' = Append(yielded,
                                    BuildConfigBatch(collected[cursor + 1],
                                                     context_window))
               /\ cursor' = cursor + 1
               /\ gen_pc' = "suspended"
            \/ /\ ResizeCanRaise(context_window)
               /\ collected[cursor + 1].variants # <<>>
               /\ gen_pc' = "raised"
               /\ UNCHANGED <<batch, yielded, cursor>>
       ELSE /\ gen_pc' = "exhausted"
            /\ UNCHANGED <<batch, yielded, cursor>>
    /\ UNCHANGED <<variant_index, batch_window, context_window, collected,
                   n_appended, driverVars, transformVars>>

NextConfig == ConfigCollect \/ ConfigYield

SpecConfig == InitConfig /\ [][NextConfig]_vars

(***************************************************************************)
(* batch.py: the steps of process_batch and the batch store.               *)
(***************************************************************************)
LocalRoot == <<"o", "u", "t">>

RemoteRoot == <<"g", "s", ":", "/", "/", "b">>

Roots == {LocalRoot, RemoteRoot}

\* "://" in output_path
IsRemote(output_path) == FindFrom(output_path, <<":", "/", "/">>, 1) # 0

\* f"{output_path}/batch_{batch_id}.parquet"
BatchPath(output_path, batch_id) ==
    output_path \o <<"/", "b", "a", "t", "c", "h", "_">> \o IntToStr(batch_id)
        \o <<".", "p", "a", "r", "q", "u", "e", "t">>

\* A file: the frame it holds, and whether it is a complete parquet file.
File(table, valid) == [table |-> table, valid |-> valid]

\* The frame a file left by an earlier run holds.
OldTable == <<[variant_id |-> Some(<<"o", "l", "d">>)]>>

\* An existence check that takes the parent directory for the file.
batch_output_exists_any(files, output_path, batch_id, read_ok) ==
    \E p \in DOMAIN files : StartsWith(p, output_path) /\ files[p] # <<>>

\* pl.scan_parquet(path).limit(0).collect(): "ok", or the exception raised.
\* read_ok is FALSE when the object store refuses or drops the request; a
\* file that is not a complete parquet file has no footer to read.
zero_row_read(files, path, read_ok) ==
    IF ~read_ok THEN "OSError"
    ELSE IF files[path] = <<>> THEN "FileNotFoundError"
    ELSE IF ~files[path][1].valid THEN "ComputeError"
    ELSE "ok"

\* A remote check that takes only a missing object for non-existence.
batch_output_exists_unless_missing(files, output_path, batch_id, read_ok) ==
    files[BatchPath(output_path, batch_id)] # <<>>

\* A check that reads the file under a local root too.
batch_output_exists_reading(files, output_path, batch_id, read_ok) ==
    zero_row_read(files, BatchPath(output_path, batch_id), read_ok) = "ok"

\* batch_output_exists: a local path exists when a file is there; a remote
\* path exists when its zero-row read succeeds, any exception of the read
\* being turned into False.
batch_output_exists(files, output_path, batch_id, read_ok) ==
    LET path == BatchPath(output_path, batch_id)
    IN IF ~IsRemote(output_path) THEN files[path] # <<>>
       ELSE zero_row_read(files, path, read_ok) = "ok"

\* A write_batch that writes the frame to every batch file of the root.
WrittenStoreWholeRoot(files, table, output_path, batch_id) ==
    [p \in DOMAIN files |->
        IF StartsWith(p, output_path) THEN <<File(table, TRUE)>> ELSE files[p]]

\* write_batch when it returns: the file holds the frame.
WrittenStore(files, table, output_path, batch_id) ==
    [files EXCEPT ![BatchPath(output_path, batch_id)] = <<File(table, TRUE)>>]

\* write_batch when write_parquet raises: the file is as it was, or partial.
FailedWriteStores(files, table, output_path, batch_id) ==
    {files,
     [files EXCEPT ![BatchPath(output_path, batch_id)] =
         <<File(<<>>, FALSE)>>]}

\* variant_scorers.tidy_scores: an annotation result is known by the tidy
\* frame it flattens to (a nullable frame).
tidy_scores(result) == result.tidy

\* pandas astype(str) on a cell: the null cell becomes the string "None".
AsTypeStr(c) == IF IsNull(c) THEN Some(<<"N", "o", "n", "e">>) ELSE c

CastRow(r) ==
    [r EXCEPT !.variant_id = AsTypeStr(@), !.scored_interval = AsTypeStr(@)]

\* transform_batch: raises when tidy_scores returns None, else the tidy frame
\* with variant_id and scored_interval cast to strings.
transform_batch(result) ==
    LET data == tidy_scores(result)
    IN IF IsNull(data) THEN [raised |-> TRUE, frame |-> <<>>]
       ELSE [raised |-> FALSE,
             frame |-> [k \in 1..Len(data[1]) |-> CastRow(data[1][k])]]

\* The annotation results the scoring service returns.
AnnotationResults ==
    {[tidy |-> Null],
     [tidy |-> Some(<<>>)],
     [tidy |-> Some(<<TidyRow(Some(VariantIdChr1), ScorerWithWidth, Null,
                              Null, Some(2), Null)>>)],
     [tidy |-> Some(<<TidyRow(Some(VariantIdChr1), ScorerWithWidth,
                              Some(Str2("G", "1")), Null, Some(2), Null),
                      TidyRow(Some(VariantIdChrM), ScorerNoParameters,
                              Some(Str2("G", "1")), Some(4), Null, Null)>>)]}

Event(op, batch_id) == [op |-> op, batch_id |-> batch_id]

(***************************************************************************)
(* __init__.py: the cli loop.                                              *)
(***************************************************************************)
DriverRows ==
    <<Row(<<"2">>, 5, <<"A">>, <<"T">>),
      Row(<<"1", "0">>, 5, <<"A">>, <<"T">>),
      Row(<<"M", "T">>, 12, <<"A", "C">>, <<"A">>),
      Row(<<"1", "0">>, 5, <<"A">>, <<"G">>)>>

\* The stores a run can start from: files of an earlier run for some of the
\* first batch ids under the output root, complete or cut short by a crash
\* of that run, nothing elsewhere.
InitialStores(root) ==
    {[p \in {BatchPath(o, id) : o \in Roots, id \in 0..MaxRows} |->
         IF \E id \in partial : p = BatchPath(root, id)
         THEN <<File(<<>>, FALSE)>>
         ELSE IF \E id \in present : p = BatchPath(root, id)
         THEN <<File(OldTable, TRUE)>> ELSE <<>>] :
        present \in SUBSET {0, 1}, partial \in SUBSET {0}}

\* dna_client.SEQUENCE_LENGTH_1MB, the model's longest sequence length.
SEQUENCE_LENGTH_1MB == 1048576

\* dna_client.SUPPORTED_SEQUENCE_LENGTHS: the sequence lengths of the scoring
\* library by name.
SUPPORTED_SEQUENCE_LENGTHS ==
    [k \in {"SEQUENCE_LENGTH_16KB", "SEQUENCE_LENGTH_100KB",
            "SEQUENCE_LENGTH_500KB", "SEQUENCE_LENGTH_1MB"} |->
        CASE k = "SEQUENCE_LENGTH_16KB" -> 16384
          [] k = "SEQUENCE_LENGTH_100KB" -> 131072
          [] k = "SEQUENCE_LENGTH_500KB" -> 524288
          [] k = "SEQUENCE_LENGTH_1MB" -> SEQUENCE_LENGTH_1MB]

\* dict.get(key, default)
DictGet(d, key, default) == IF key \in DOMAIN d THEN d[key] ELSE default

\* _cw = dna_client.SUPPORTED_SEQUENCE_LENGTHS.get("SEQUENCE_LENGTH_1MB",
\*                                                  context_window)
ContextWidth(option) ==
    DictGet(SUPPORTED_SEQUENCE_LENGTHS, "SEQUENCE_LENGTH_1MB", option)

\* The values of --context-window: the default 2**20, and 524288.
ContextWindowOptions == {1048576, 524288}

Init ==
    /\ variant_index \in {SubSeq(DriverRows, 1, n) : n \in 0..MaxRows}
    /\ batch_window \in {1, 2}
    /\ cli_context_window \in ContextWindowOptions
    /\ context_window = ContextWidth(cli_context_window)
    /\ gen_pc = "created"
    /\ collected = <<>>
    /\ cursor = 0
    /\ batch = <<>>
    /\ yielded = <<>>
    /\ n_appended = 0
    /\ resume \in BOOLEAN
    /\ test_mode \in BOOLEAN
    /\ output \in Roots
    /\ store \in InitialStores(output)
    /\ pc = "loop"
    /\ loop_i = 0
    /\ annotation_result = Null
    /\ transformed_result = Null
    /\ log = <<>>
    /\ error = Null
    /\ score_calls = <<>>
    /\ TransformIdle

\* for i, _batch in enumerate(_iter): the loop asks the generator for the next
\* batch; the loop ends when the generator is exhausted.
LoopNext ==
    /\ pc = "loop"
    /\ \E frame \in (IF gen_pc = "created"
                     THEN AggregateOrders(variant_index, batch_window)
                     ELSE {collected}) :
          /\ collected' = frame
          /\ IF cursor < Len(frame)
             THEN /\ batch' = <<BuildBatch(frame[cursor + 1], context_window)>>
                  /\ yielded' = Append(yielded, BuildBatch(frame[cursor + 1],
                                                          context_window))
                  /\ cursor' = cursor + 1
                  /\ loop_i' = cursor
                  /\ gen_pc' = "suspended"
                  /\ pc' = "check"
                  /\ log' = Append(log, Event("next", frame[cursor + 1].batchId))
             ELSE /\ gen_pc' = "exhausted"
                  /\ pc' = "done"
                  /\ UNCHANGED <<batch, yielded, cursor, loop_i, log>>
    /\ UNCHANGED <<variant_index, batch_window, context_window, n_appended,
                   resume, test_mode, cli_context_window,
                   output, store, annotation_result,
                   transformed_result, error, score_calls, transformVars>>

\* The test with the existence check negated.
ShouldSkipWhenMissing(resume_flag, exists) == resume_flag /\ ~exists

\* resume and batch_output_exists(output, _batch.batch_id)
ShouldSkip(resume_flag, exists) == resume_flag /\ exists

\* if resume and batch_output_exists(...): continue.  The check is made only
\* when resume is set; its answer is logged as exists_true or exists_false.
CheckResume ==
    /\ pc = "check"
    /\ IF resume
       THEN \E read_ok \in BOOLEAN :
               LET exists == batch_output_exists(store, output,
                                                 batch[1].batch_id, read_ok)
               IN /\ log' = Append(log,
                                   Event(IF exists THEN "exists_true"
                                         ELSE "exists_false",
                                         batch[1].batch_id))
                  /\ pc' = IF ShouldSkip(resume, exists) THEN "loop"
                           ELSE "annotate"
       ELSE /\ pc' = IF ShouldSkip(resume, FALSE) THEN "loop" ELSE "annotate"
            /\ UNCHANGED log
    /\ UNCHANGED <<batchVars, resume, test_mode, cli_context_window,
                   output, store, loop_i,
                   annotation_result, transformed_result, error,
                   score_calls, transformVars>>

\* The exceptions that end a run.
ScoringErrors == {"TransportError", "AuthError"}

NoDataError == "AssertionError: No data returned from variant scorers."

StorageError == "StorageError"

\* A call that passes the intervals in reverse order.
ScoreCallReversed(c_variants, outcome) ==
    LET n == Len(c_variants.interval_variants)
    IN [variants |-> [k \in 1..n |-> c_variants.interval_variants[k].variant],
        intervals |->
            [k \in 1..n |-> c_variants.interval_variants[n + 1 - k].interval],
        batch_id |-> c_variants.batch_id,
        outcome |-> outcome]

\* annotate_batch: the arguments of client.score_variants, with what the call
\* gave back (<<result>>, or <<>> when it raised).
ScoreCall(c_variants, outcome) ==
    LET n == Len(c_variants.interval_variants)
    IN [variants |-> [k \in 1..n |-> c_variants.interval_variants[k].variant],
        intervals |->
            [k \in 1..n |-> c_variants.interval_variants[k].interval],
        batch_id |-> c_variants.batch_id,
        outcome |-> outcome]

\* An annotate step that swallows the error of the scoring call and lets the
\* loop go on with the next batch.
AnnotateSwallowing ==
    /\ pc = "annotate"
    /\ log' = Append(log, Event("annotate", batch[1].batch_id))
    /\ \/ \E result \in AnnotationResults :
             /\ annotation_result' = Some(result)
             /\ score_calls' = Append(score_calls,
                                      ScoreCall(batch[1], Some(result)))
             /\ pc' = "transform"
       \/ /\ pc' = "loop"
          /\ score_calls' = Append(score_calls, ScoreCall(batch[1], Null))
          /\ UNCHANGED annotation_result
    /\ UNCHANGED <<batchVars, resume, test_mode, cli_context_window,
                   output, store, loop_i,
                   transformed_result, error, transformVars>>

\* process_batch, first step: annotate_batch makes the one score_variants
\* call and returns its result, or the call raises and the error leaves the
\* loop.
Annotate ==
    /\ pc = "annotate"
    /\ log' = Append(log, Event("annotate", batch[1].batch_id))
    /\ \/ \E result \in AnnotationResults :
             /\ annotation_result' = Some(result)
             /\ score_calls' = Append(score_calls,
                                      ScoreCall(batch[1], Some(result)))
             /\ pc' = "transform"
             /\ UNCHANGED error
       \/ \E e \in ScoringErrors :
             /\ pc' = "failed"
             /\ error' = Some(e)
             /\ score_calls' = Append(score_calls, ScoreCall(batch[1], Null))
             /\ UNCHANGED annotation_result
    /\ UNCHANGED <<batchVars, resume, test_mode, cli_context_window,
                   output, store, loop_i,
                   transformed_result, transformVars>>

\* process_batch, second step: transform_batch.
Transform ==
    /\ pc = "transform"
    /\ log' = Append(log, Event("transform", batch[1].batch_id))
    /\ LET result == transform_batch(annotation_result[1])
       IN IF result.raised
          THEN /\ pc' = "failed"
               /\ error' = Some(NoDataError)
               /\ UNCHANGED transformed_result
          ELSE /\ pc' = "write"
               /\ transformed_result' = Some(result.frame)
               /\ UNCHANGED error
    /\ UNCHANGED <<batchVars, resume, test_mode, cli_context_window,
                   output, store, loop_i,
                   annotation_result, score_calls, transformVars>>

\* A write_batch that is tried again when write_parquet raises.
WriteRetrying ==
    /\ pc = "write"
    /\ log' = Append(log, Event("write", batch[1].batch_id))
    /\ \/ /\ store' = WrittenStore(store, transformed_result[1], output,
                                   batch[1].batch_id)
          /\ pc' = "written"
       \/ /\ store' \in FailedWriteStores(store, transformed_result[1], output,
                                          batch[1].batch_id)
          /\ pc' = "write"
    /\ UNCHANGED <<error, score_calls>>
    /\ UNCHANGED <<batchVars, resume, test_mode, cli_context_window,
                   output, loop_i,
                   annotation_result, transformed_result, transformVars>>

\* A loop that catches the error of write_batch and goes on with the next
\* batch.
WriteContinuing ==
    /\ pc = "write"
    /\ log' = Append(log, Event("write", batch[1].batch_id))
    /\ \/ /\ store' = WrittenStore(store, transformed_result[1], output,
                                   batch[1].batch_id)
          /\ pc' = "written"
          /\ UNCHANGED error
       \/ /\ store' \in FailedWriteStores(store, transformed_result[1], output,
                                          batch[1].batch_id)
          /\ pc' = "loop"
          /\ error' = Some(StorageError)
    /\ UNCHANGED <<batchVars, resume, test_mode, cli_context_window,
                   output, loop_i, annotation_result, transformed_result,
                   score_calls, transformVars>>

\* process_batch, third step: write_batch returns, or write_parquet raises
\* and the error leaves the loop.
Write ==
    /\ pc = "write"
    /\ log' = Append(log, Event("write", batch[1].batch_id))
    /\ \/ /\ store' = WrittenStore(store, transformed_result[1], output,
                                   batch[1].batch_id)
          /\ pc' = "written"
          /\ UNCHANGED error
       \/ /\ store' \in FailedWriteStores(store, transformed_result[1], output,
                                          batch[1].batch_id)
          /\ pc' = "failed"
          /\ error' = Some(StorageError)
    /\ UNCHANGED <<batchVars, resume, test_mode, cli_context_window,
                   output, loop_i,
                   annotation_result, transformed_result, score_calls,
                   transformVars>>

\* A loop that goes on to the next batch whatever test_mode is.
AfterBatchNeverBreaking ==
    /\ pc = "written"
    /\ pc' = "loop"
    /\ UNCHANGED <<batchVars, resume, test_mode, cli_context_window,
                   output, store, loop_i,
                   annotation_result, transformed_result, log, error,
                   score_calls, transformVars>>

\* A loop that breaks after the first batch it has processed.
AfterBatchBreakingAtOnce ==
    /\ pc = "written"
    /\ pc' = "done"
    /\ UNCHANGED <<batchVars, resume, test_mode, cli_context_window,
                   output, store, loop_i, annotation_result,
                   transformed_result, log, error, score_calls, transformVars>>

\* if i >= 1 and test_mode: break
AfterBatch ==
    /\ pc = "written"
    /\ pc' = IF loop_i >= 1 /\ test_mode THEN "done" ELSE "loop"
    /\ UNCHANGED <<batchVars, resume, test_mode, cli_context_window,
                   output, store, loop_i,
                   annotation_result, transformed_result, log, error,
                   score_calls, transformVars>>

Next ==
    \/ LoopNext
    \/ CheckResume
    \/ Annotate
    \/ Transform
    \/ Write
    \/ AfterBatch

Spec == Init /\ [][Next]_vars

(***************************************************************************)
(* A run with test mode off that is interrupted and run again with         *)
(* --resume: the process ends wherever it stands, and the command is       *)
(* started anew on the same index, batch_window and output root, with the  *)
(* store as the first run left it.  The first run starts on an empty local *)
(* output root.                                                            *)
(***************************************************************************)
InitResume ==
    /\ Init
    /\ Len(variant_index) <= MaxResumeRows
    /\ ~resume
    /\ ~test_mode
    /\ output = LocalRoot
    /\ cli_context_window = SEQUENCE_LENGTH_1MB
    /\ \A p \in DOMAIN store : store[p] = <<>>

\* The first run ends at any point of the loop (between batches, inside
\* process_batch, after an error or at its end) and cli is called again with
\* --resume: a new generator, a new loop, the same store.
RunAgain ==
    /\ pc # "idle"
    /\ ~resume
    /\ resume' = TRUE
    /\ gen_pc' = "created"
    /\ collected' = <<>>
    /\ cursor' = 0
    /\ batch' = <<>>
    /\ yielded' = <<>>
    /\ pc' = "loop"
    /\ loop_i' = 0
    /\ annotation_result' = Null
    /\ transformed_result' = Null
    /\ log' = <<>>
    /\ error' = Null
    /\ score_calls' = <<>>
    /\ UNCHANGED <<variant_index, batch_window, context_window, n_appended,
                   test_mode, cli_context_window, output, store,
                   transformVars>>

NextResume == Next \/ RunAgain

\* The loop is sequential code that runs on until it ends or raises: a step
\* of the run that can be taken is taken.  The interruption is under no
\* such condition.
SpecResume == InitResume /\ [][NextResume]_vars /\ WF_vars(Next)

(***************************************************************************)
(* transform_output applied to a tidy frame.                               *)
(***************************************************************************)
InitTransform ==
    /\ tidy_frame \in SeqsUpTo(TidyRows, MaxTidy)
    /\ selected_frame = <<>>
    /\ normalized = {}
    /\ t_pc = "input"
    /\ p_call = [kind |-> "idle"]
    /\ p_trace = <<>>
    /\ BatchIdle
    /\ DriverIdle

TransformOutput ==
    /\ t_pc = "input"
    /\ selected_frame' = SelectFrame(tidy_frame)
    /\ normalized' = transform_output(tidy_frame)
    /\ t_pc' = "output"
    /\ UNCHANGED <<tidy_frame, p_call, p_trace, batchVars, driverVars>>

NextTransform == TransformOutput

SpecTransform == InitTransform /\ [][NextTransform]_vars

(***************************************************************************)
(* The converters and parsers of transform.py applied to single values.    *)
(***************************************************************************)
\* The chromosome names of the two conventions.
BareNames ==
    {IntToStr(n) : n \in 1..22} \cup {<<"X">>, <<"Y">>, <<"M", "T">>}

PrefixedNames ==
    {kChr \o IntToStr(n) : n \in 1..22}
        \cup {kChr \o <<"X">>, kChr \o <<"Y">>, kChr \o <<"M">>}

\* Names of neither convention.
OtherNames == {<<"M">>, kChr \o <<"M", "T">>}

\* "{CHR}:{POS}:{REF}>{ALT}"
VariantIdText(parts) ==
    parts[1] \o <<":">> \o parts[2] \o <<":">> \o parts[3] \o <<">">>
        \o parts[4]

VariantIdParts ==
    {<<c, pos, ref, alt>> :
        c \in {kChr \o <<"1">>, kChr \o <<"M">>, kChr \o <<"X">>, <<"7">>,
               <<"M">>, <<"M", "T">>},
        pos \in {<<"5">>, <<"1", "2">>},
        ref \in {<<"A">>, <<"A", "C", "T">>},
        alt \in {<<"T">>, <<"A", "G">>}}

\* Ids that lack a component: "chr1", "chr1:5", "chr1:5:A".
MalformedVariantIds ==
    {kChr \o <<"1">>,
     kChr \o <<"1", ":", "5">>,
     kChr \o <<"1", ":", "5", ":", "A">>}

\* "{name}({key}={value}, ...)": params is a sequence of [key, value], the
\* key with its "=".
RECURSIVE ParamsText(_)
ParamsText(params) ==
    IF params = <<>> THEN <<>>
    ELSE params[1].key \o params[1].value
             \o (IF Len(params) = 1 THEN <<>> ELSE <<",", " ">>)
             \o ParamsText(Tail(params))

ScorerText(parts) ==
    parts.name \o <<"(">> \o ParamsText(parts.params) \o <<")">>

ScorerKeys == {kRequestedOutput, kWidth, kAggregationType}

\* The texts after "width=": 5, 501, None and 3000000000.
WidthTexts ==
    {<<"5">>, <<"5", "0", "1">>, <<"N", "o", "n", "e">>,
     <<"3", "0", "0", "0", "0", "0", "0", "0", "0", "0">>}

\* Any of the parameters, each at most once, in any order.
ScorerParts ==
    {[name |-> n,
      params |-> [i \in 1..Len(keys) |->
                     [key |-> keys[i],
                      value |-> IF keys[i] = kWidth THEN w
                                ELSE IF keys[i] = kRequestedOutput
                                THEN <<"R", "N", "A">>
                                ELSE <<"S", "U", "M">>]]] :
        n \in {<<"C", "M", "S">>},
        w \in WidthTexts,
        keys \in {k \in SeqsUpTo(ScorerKeys, 3) :
                    \A i, j \in 1..Len(k) : i # j => k[i] # k[j]}}

\* The arguments of the from_variant calls: chromosome, position,
\* reference_bases, alternate_bases and window_size, as in the tests.
FromVariantParts ==
    {<<c, pos, ref, alt, w>> :
        c \in {kChr \o <<"1">>, kChr \o <<"X">>},
        pos \in {100, 500},
        ref \in {<<"A">>, <<"C", "T">>},
        alt \in {<<"T">>},
        w \in {4}}

\* batch_id as declared (str | None): the strings "", "0" and "batch_42";
\* None is the default.
BatchIdStrings ==
    {<<>>, <<"0">>, <<"b", "a", "t", "c", "h", "_", "4", "2">>}

\* batch_id as batch_variant_index passes it: the integer of the batchId
\* column.
BatchIdIntegers == {0, 1, 2}

Call(kind, parts, arg, null_on_oob) ==
    [kind |-> kind, parts |-> parts, arg |-> arg, null_on_oob |-> null_on_oob]

InitParse ==
    /\ \/ \E c \in BareNames \cup OtherNames :
             p_call = Call("bare", <<>>, c, TRUE)
       \/ \E c \in PrefixedNames \cup OtherNames :
             p_call = Call("prefixed", <<>>, c, TRUE)
       \/ \E parts \in VariantIdParts, lib \in BOOLEAN :
             p_call = Call("variant_id", parts, Some(VariantIdText(parts)),
                           lib)
       \/ \E text \in MalformedVariantIds, lib \in BOOLEAN :
             p_call = Call("variant_id", <<>>, Some(text), lib)
       \/ \E lib \in BOOLEAN : p_call = Call("variant_id", <<>>, Null, lib)
       \/ \E parts \in ScorerParts :
             p_call = Call("scorer", parts, Some(ScorerText(parts)), TRUE)
       \/ p_call = Call("scorer", <<>>, Null, TRUE)
       \/ \E parts \in FromVariantParts, b \in BatchIdStrings :
             p_call = Call("from_variant", parts, PyStr(b), TRUE)
       \/ \E parts \in FromVariantParts, b \in BatchIdIntegers :
             p_call = Call("from_variant", parts, PyInt(b), TRUE)
       \/ \E parts \in FromVariantParts :
             p_call = Call("from_variant", parts, PyNone, TRUE)
    /\ p_trace = <<>>
    /\ tidy_frame = <<>>
    /\ selected_frame = <<>>
    /\ normalized = {}
    /\ t_pc = "idle"
    /\ BatchIdle
    /\ DriverIdle

\* ensembl_to_ucsc on a bare name, or on what ucsc_to_ensembl gave.
EnsemblToUcsc ==
    /\ \/ p_call.kind = "bare" /\ p_trace = <<>>
       \/ p_call.kind = "prefixed" /\ Len(p_trace) = 1
    /\ p_trace' = Append(p_trace,
                         Outcome(FALSE,
                                 ensembl_to_ucsc(IF p_trace = <<>>
                                                 THEN p_call.arg
                                                 ELSE p_trace[1].value)))
    /\ UNCHANGED <<p_call, tidy_frame, selected_frame, normalized, t_pc,
                   batchVars, driverVars>>

\* ucsc_to_ensembl on a prefixed name, or on what ensembl_to_ucsc gave.
UcscToEnsembl ==
    /\ \/ p_call.kind = "prefixed" /\ p_trace = <<>>
       \/ p_call.kind = "bare" /\ Len(p_trace) = 1
    /\ p_trace' = Append(p_trace,
                         Outcome(FALSE,
                                 ucsc_to_ensembl(IF p_trace = <<>>
                                                 THEN p_call.arg
                                                 ELSE p_trace[1].value)))
    /\ UNCHANGED <<p_call, tidy_frame, selected_frame, normalized, t_pc,
                   batchVars, driverVars>>

\* select(parse_variant_id(col)) on a one-row frame.
ParseVariantId ==
    /\ p_call.kind = "variant_id"
    /\ p_trace = <<>>
    /\ p_trace' =
          <<IF parse_variant_id_raises(p_call.arg, p_call.null_on_oob)
            THEN Outcome(TRUE, Null)
            ELSE Outcome(FALSE, parse_variant_id(p_call.arg))>>
    /\ UNCHANGED <<p_call, tidy_frame, selected_frame, normalized, t_pc,
                   batchVars, driverVars>>

\* select(parse_scorer(col)) on a one-row frame.
ParseScorer ==
    /\ p_call.kind = "scorer"
    /\ p_trace = <<>>
    /\ p_trace' =
          <<IF parse_scorer_raises(p_call.arg)
            THEN Outcome(TRUE, Null)
            ELSE Outcome(FALSE, parse_scorer(p_call.arg))>>
    /\ UNCHANGED <<p_call, tidy_frame, selected_frame, normalized, t_pc,
                   batchVars, driverVars>>

\* ContextualizedVariant.from_variant(chromosome=..., batch_id=...).
FromVariant ==
    /\ p_call.kind = "from_variant"
    /\ p_trace = <<>>
    /\ p_trace' =
          <<Outcome(FALSE,
                    from_variant(p_call.parts[1], p_call.parts[2],
                                 p_call.parts[3], p_call.parts[4],
                                 p_call.parts[5], p_call.arg))>>
    /\ UNCHANGED <<p_call, tidy_frame, selected_frame, normalized, t_pc,
                   batchVars, driverVars>>

NextParse ==
    \/ EnsemblToUcsc
    \/ UcscToEnsembl
    \/ ParseVariantId
    \/ ParseScorer
    \/ FromVariant

SpecParse == InitParse /\ [][NextParse]_vars

(***************************************************************************)
(* Properties of the partition.                                            *)
(***************************************************************************)
\* The VariantContext cv was built from the index row r.
MatchesRow(cv, r) ==
    /\ cv.variant.chromosome = ensembl_to_ucsc(r.chromosome)
    /\ cv.variant.position = r.position
    /\ cv.variant.reference_bases = r.referenceAllele
    /\ cv.variant.alternate_bases = r.alternateAllele

CountIn(index, r) == Cardinality({i \in 1..Len(index) : index[i] = r})

\* The (batch, position) slots of the batches yielded so far.
YieldedSlots ==
    UNION {{<<b, k>> : k \in 1..Len(yielded[b].interval_variants)} :
              b \in 1..Len(yielded)}

YieldedCount(r) ==
    Cardinality({s \in YieldedSlots :
                    MatchesRow(yielded[s[1]].interval_variants[s[2]], r)})

\* C1: the yielded batches together hold each input row exactly once: no row
\* is yielded more often than the index holds it, and once the generator is
\* exhausted every row has been yielded as often as the index holds it, so the
\* batch sizes sum to the number of input rows.
RowConservation ==
    /\ \A r \in IndexRows : YieldedCount(r) <= CountIn(variant_index, r)
    /\ gen_pc = "exhausted" =>
          /\ \A r \in IndexRows : YieldedCount(r) = CountIn(variant_index, r)
          /\ Cardinality(YieldedSlots) = Len(variant_index)

RowConservationWitness ==
    /\ gen_pc = "exhausted"
    /\ Len(yielded) >= 2
    /\ \E r \in IndexRows : CountIn(variant_index, r) >= 2

\* C2: the variant at position k of the batch with id b is the row whose
\* zero-based rank in the sort by (chromosome, position, referenceAllele,
\* alternateAllele) is b * W + (k - 1) with k - 1 < W, that is, the row of
\* rank r sits in batch floor(r / W).
BatchIdIsFloorOfRank ==
    \A s \in YieldedSlots :
        \A x \in IndexRows :
            MatchesRow(yielded[s[1]].interval_variants[s[2]], x) =>
                LET rank == yielded[s[1]].batch_id * batch_window + (s[2] - 1)
                    below == Cardinality({i \in 1..Len(variant_index) :
                                             RowLess(variant_index[i], x)})
                IN /\ s[2] <= batch_window
                   /\ yielded[s[1]].batch_id = rank \div batch_window
                   /\ below <= rank
                   /\ rank < below + CountIn(variant_index, x)

\* Ranks 0 and W - 1 have been yielded in one batch, rank W in another.
BatchIdIsFloorOfRankWitness ==
    /\ gen_pc = "exhausted"
    /\ batch_window = 2
    /\ Len(variant_index) = 3
    /\ \E b \in 1..Len(yielded) :
          yielded[b].batch_id = 0 /\ Len(yielded[b].interval_variants) = 2
    /\ \E b \in 1..Len(yielded) : yielded[b].batch_id = 1

\* C3: one batch per distinct batch id, yielded in ascending batch-id order.
OnePerIdAscending ==
    \A i, j \in 1..Len(yielded) :
        i < j => yielded[i].batch_id < yielded[j].batch_id

\* C4: every batch object satisfies n_variants = len(interval_variants).
BatchCountMatchesList ==
    \A i \in 1..Len(batch) :
        batch[i].n_variants = Len(batch[i].interval_variants)

Reorderings(n) ==
    {f \in [1..n -> 1..n] : \A i, j \in 1..n : i # j => f[i] # f[j]}

\* C5: partitioning any reordering of the same input rows with the same
\* batch_window gives the batch ids and, per batch id, the member variants
\* that this run yields.
PartitionDeterministic ==
    \A f \in Reorderings(Len(variant_index)) :
        LET other == Groups([i \in 1..Len(variant_index) |->
                                variant_index[f[i]]], batch_window)
        IN /\ \A b \in 1..Len(yielded) :
                 \E g \in other :
                    /\ g.batchId = yielded[b].batch_id
                    /\ Len(g.variants) = Len(yielded[b].interval_variants)
                    /\ \A k \in 1..Len(g.variants) :
                          MatchesRow(yielded[b].interval_variants[k],
                                     g.variants[k])
           /\ gen_pc = "exhausted" =>
                 {g.batchId : g \in other}
                     = {yielded[b].batch_id : b \in 1..Len(yielded)}

\* A drained run over an index that is not in sort order and whose rows tie
\* on (chromosome, position) across a batch boundary.
PartitionDeterministicWitness ==
    /\ gen_pc = "exhausted"
    /\ Len(yielded) >= 2
    /\ variant_index # SortRows(variant_index)
    /\ \E i, j \in 1..Len(variant_index) :
          /\ variant_index[i] # variant_index[j]
          /\ variant_index[i].chromosome = variant_index[j].chromosome
          /\ variant_index[i].position = variant_index[j].position

\* C14: a non-positive configuration value is an error at once:
\* batch_variant_index with batch_window <= 0 yields no batch and fails, and
\* from_variant with window_size < 1 returns no VariantContext.
NonPositiveConfigRejected ==
    /\ batch_window <= 0 =>
          /\ yielded = <<>>
          /\ gen_pc \in {"created", "raised"}
    /\ context_window < 1 =>
          \A b \in 1..Len(yielded) : yielded[b].interval_variants = <<>>

(***************************************************************************)
(* Properties of transform_output.                                         *)
(***************************************************************************)
FeatureColumns ==
    {"variantBasedFeatures", "geneBasedFeatures", "spliceJunctionFeatures"}

TidyKey(r) ==
    [variantId |-> parse_variant_id(r.variant_id),
     interval |-> scored_interval_to_interval_struct(r.scored_interval),
     biosampleMetadata |->
         capture_biosample(r.ontology_curie, r.biosample_name,
                           r.biosample_type, r.biosample_life_stage,
                           r.gtex_tissue, r.genetically_modified)]

OutKey(o) ==
    [variantId |-> o.variantId,
     interval |-> o.interval,
     biosampleMetadata |-> o.biosampleMetadata]

\* variantId, interval and the four biosample fields id, name, type and life
\* stage of an output row.
FourFieldKey(o) ==
    <<o.variantId, o.interval, o.biosampleMetadata.ontologyCurie,
      o.biosampleMetadata.biosampleName, o.biosampleMetadata.biosampleType,
      o.biosampleMetadata.biosampleLifeStage>>

\* The number of items of a list kept as a bag.
RECURSIVE BagTotal(_)
BagTotal(bag) ==
    IF DOMAIN bag = {} THEN 0
    ELSE LET x == CHOOSE y \in DOMAIN bag : TRUE
         IN bag[x] + BagTotal([y \in DOMAIN bag \ {x} |-> bag[y]])

FeatureCount(o) ==
    BagTotal(o.variantBasedFeatures) + BagTotal(o.geneBasedFeatures)
        + BagTotal(o.spliceJunctionFeatures)

ChromosomeRoundTrip ==
    /\ (p_call.kind = "bare" /\ p_call.arg \in BareNames) =>
          /\ Len(p_trace) >= 1 =>
                /\ p_trace[1].value \in PrefixedNames
                /\ p_call.arg = <<"M", "T">>
                      <=> p_trace[1].value = kChr \o <<"M">>
          /\ Len(p_trace) = 2 => p_trace[2].value = p_call.arg
    /\ (p_call.kind = "prefixed" /\ p_call.arg \in PrefixedNames) =>
          /\ Len(p_trace) >= 1 =>
                /\ p_trace[1].value \in BareNames
                /\ p_call.arg = kChr \o <<"M">>
                      <=> p_trace[1].value = <<"M", "T">>
          /\ Len(p_trace) = 2 => p_trace[2].value = p_call.arg

\* MT has been converted to the prefixed convention and back.
ChromosomeRoundTripWitness ==
    /\ p_call.kind = "bare"
    /\ p_call.arg = <<"M", "T">>
    /\ Len(p_trace) = 2

\* C19: an id "{CHR}:{POS}:{REF}>{ALT}" is parsed to "{B}_{POS}_{REF}_{ALT}"
\* with B = ucsc_to_ensembl(CHR), alleles of several characters kept; an id
\* that lacks a component, or a null id, gives null and no error.
VariantIdParsedAsNamed ==
    (p_call.kind = "variant_id" /\ Len(p_trace) = 1) =>
        IF p_call.parts # <<>>
        THEN p_trace[1]
               = Outcome(FALSE,
                         Some(ucsc_to_ensembl(p_call.parts[1]) \o <<"_">>
                                  \o p_call.parts[2] \o <<"_">>
                                  \o p_call.parts[3] \o <<"_">>
                                  \o p_call.parts[4]))
        ELSE p_trace[1] = Outcome(FALSE, Null)

\* The value the scorer text gives the parameter key, or null.
ParamValue(parts, key) ==
    IF \E i \in 1..Len(parts.params) : parts.params[i].key = key
    THEN Some(parts.params[CHOOSE i \in 1..Len(parts.params) :
                              parts.params[i].key = key].value)
    ELSE Null

IsNumber(c) ==
    IsNotNull(c) /\ \A i \in 1..Len(c[1]) : c[1][i] \in DigitChars

\* The four subfields a scorer text built from parts should give, whatever
\* the order of its parameters.
ExpectedScorer(parts) ==
    [scorerName |-> Some(parts.name),
     requestedOutput |-> ParamValue(parts, kRequestedOutput),
     width |-> IF IsNumber(ParamValue(parts, kWidth))
               THEN Some(DecimalValue(ParamValue(parts, kWidth)[1]))
               ELSE Null,
     aggregationType |-> ParamValue(parts, kAggregationType)]

NullScorer ==
    [scorerName |-> Null, requestedOutput |-> Null, width |-> Null,
     aggregationType |-> Null]

ProcessingOps == {"annotate", "transform", "write"}

\* C6: with resume set, a batch whose existence check answered true is
\* skipped: no annotate, transform or write call is ever made for it and the
\* loop goes on to the next batch; a batch whose check answered false is
\* processed, the next call being annotate_batch for it.
ResumeSkipsExisting ==
    \A k \in 1..Len(log) :
        /\ log[k].op \in {"exists_true", "exists_false"} => resume
        /\ log[k].op = "exists_true" =>
              /\ \A m \in 1..Len(log) :
                    log[m].batch_id = log[k].batch_id =>
                        log[m].op \notin ProcessingOps
              /\ k < Len(log) => log[k + 1].op = "next"
              /\ k = Len(log) => pc \in {"loop", "done"}
        /\ log[k].op = "exists_false" =>
              /\ k < Len(log) =>
                    log[k + 1] = Event("annotate", log[k].batch_id)
              /\ k = Len(log) => pc = "annotate"

\* One batch was skipped and another processed through to its write.
ResumeSkipsExistingWitness ==
    /\ resume
    /\ \E k \in 1..Len(log) : log[k].op = "exists_true"
    /\ \E k \in 1..Len(log) : log[k].op = "write"
    /\ pc = "done"

\* The ids for which no file was ever put under the output root.
NeverWritten ==
    {id \in 0..MaxRows : store[BatchPath(output, id)] = <<>>}

\* C7 as stated: for any output root, the check made right after a
\* successful write_batch answers true, and the check of a never-written
\* batch id answers false.
ExistsAfterWriteAnyRoot ==
    \A read_ok \in BOOLEAN :
        /\ pc = "written" =>
              batch_output_exists(store, output, batch[1].batch_id, read_ok)
        /\ pc # "idle" =>
              \A id \in NeverWritten :
                  ~batch_output_exists(store, output, id, read_ok)

\* C7 amended: right after a successful write_batch the check answers true
\* for a local root, and for a remote root exactly when its zero-row read
\* succeeds; the check of a never-written batch id answers false.
ExistsAfterWrite ==
    \A read_ok \in BOOLEAN :
        /\ pc = "written" =>
              (batch_output_exists(store, output, batch[1].batch_id, read_ok)
                  <=> (IsRemote(output) => read_ok))
        /\ pc # "idle" =>
              \A id \in NeverWritten :
                  ~batch_output_exists(store, output, id, read_ok)

\* A batch other than 0 has just been written while some other id has no
\* file, under a remote root.
ExistsAfterWriteWitness ==
    /\ pc = "written"
    /\ IsRemote(output)
    /\ batch[1].batch_id # 0
    /\ NeverWritten # {}

\* C8: the calls of a batch come in the order annotate, transform, write,
\* each at most once and each right after the one before; the next batch is
\* requested only after the batch in hand was skipped or written; a batch
\* that has been processed has had exactly these three calls.
StepsInOrder ==
    /\ \A k \in 1..Len(log) :
          /\ log[k].op = "annotate" =>
                /\ k > 1
                /\ log[k - 1].batch_id = log[k].batch_id
                /\ log[k - 1].op \in {"next", "exists_false"}
          /\ log[k].op = "transform" =>
                k > 1 /\ log[k - 1] = Event("annotate", log[k].batch_id)
          /\ log[k].op = "write" =>
                k > 1 /\ log[k - 1] = Event("transform", log[k].batch_id)
          /\ (log[k].op = "next" /\ k > 1) =>
                log[k - 1].op \in {"write", "exists_true"}
          /\ \A m \in 1..Len(log) : m # k => log[m] # log[k]
    /\ pc = "written" =>
          /\ Len(log) >= 3
          /\ log[Len(log)] = Event("write", batch[1].batch_id)
          /\ store[BatchPath(output, batch[1].batch_id)]
                 = <<File(transformed_result[1], TRUE)>>

\* Two batches have been processed one after the other.
StepsInOrderWitness ==
    /\ pc = "written"
    /\ Cardinality({k \in 1..Len(log) : log[k].op = "write"}) = 2

\* C12: when the scoring call raises for a batch, the error leaves
\* process_batch and the loop as it was raised and the run stops there;
\* transform_batch and write_batch are not called for the batch, no file is
\* created or changed, and batch_output_exists answers for the batch what it
\* answered before, so that a batch without a file is not skipped by a
\* resumed run.
ScoringErrorPropagates ==
    [][/\ pc # "failed"
       /\ (pc = "annotate" /\ pc' # "transform") =>
             /\ pc' = "failed"
             /\ error' \in {Some(e) : e \in ScoringErrors}
             /\ store' = store
             /\ transformed_result' = transformed_result
             /\ \A k \in 1..Len(log') :
                   log'[k].batch_id = batch[1].batch_id =>
                       log'[k].op \notin {"transform", "write"}
             /\ \A read_ok \in BOOLEAN :
                   /\ batch_output_exists(store', output, batch[1].batch_id,
                                          read_ok)
                        = batch_output_exists(store, output,
                                              batch[1].batch_id, read_ok)
                   /\ store[BatchPath(output, batch[1].batch_id)] = <<>> =>
                        ~ShouldSkip(TRUE,
                                    batch_output_exists(store', output,
                                                        batch[1].batch_id,
                                                        read_ok))]_vars

\* The scoring call raised for a batch without a file, after another batch
\* had been written.
ScoringErrorPropagatesWitness ==
    /\ pc = "failed"
    /\ error \in {Some(e) : e \in ScoringErrors}
    /\ log[Len(log)].op = "annotate"
    /\ \E k \in 1..Len(log) : log[k].op = "write"
    /\ store[BatchPath(output, batch[1].batch_id)] = <<>>

\* C13: when the flattening stage returns None or a frame with no rows for a
\* batch, transform_batch fails with the "No data returned" error, the batch
\* is aborted and no file is written for it.
NoDataAborts ==
    (annotation_result # Null /\ Len(log) > 0
        /\ (tidy_scores(annotation_result[1]) = Null
               \/ tidy_scores(annotation_result[1]) = Some(<<>>))) =>
        /\ log[Len(log)] = Event("transform", batch[1].batch_id) =>
              pc = "failed" /\ error = Some(NoDataError)
        /\ log[Len(log)] # Event("write", batch[1].batch_id)

\* C15: for a remote output root batch_output_exists answers true exactly
\* when the zero-row read of the batch's file succeeds and false on every
\* failure of that read; it never raises, so the run never stops at the
\* resume check.
RemoteExistsIffReadSucceeds ==
    /\ (pc # "idle" /\ IsRemote(output)) =>
          \A id \in 0..MaxRows, read_ok \in BOOLEAN :
              /\ batch_output_exists(store, output, id, read_ok) \in BOOLEAN
              /\ batch_output_exists(store, output, id, read_ok)
                    <=> zero_row_read(store, BatchPath(output, id), read_ok)
                            = "ok"
    /\ pc = "failed" => log[Len(log)].op \in ProcessingOps
    /\ (IsRemote(output) /\ log # <<>>
            /\ log[Len(log)].op = "exists_true") =>
          zero_row_read(store, BatchPath(output, log[Len(log)].batch_id),
                        TRUE) = "ok"

\* Under a remote root the check answered false for a batch whose file is
\* there and complete: its read failed.
RemoteExistsIffReadSucceedsWitness ==
    /\ IsRemote(output)
    /\ pc = "annotate"
    /\ log[Len(log)].op = "exists_false"
    /\ store[BatchPath(output, batch[1].batch_id)] = <<File(OldTable, TRUE)>>

\* C16 as stated: whenever a file exists at the batch's path, whatever its
\* content, the reachable check counts the batch as processed, for local and
\* remote roots alike.
ExistenceAloneDecides ==
    pc # "idle" =>
        \A id \in 0..MaxRows :
            batch_output_exists(store, output, id, TRUE)
                <=> store[BatchPath(output, id)] # <<>>

\* C16 amended: under a local root existence alone decides, whatever the
\* content of the file; under a remote root a file counts only if its
\* zero-row read succeeds, so a file that is not a complete parquet file
\* counts as missing.
ExistenceDecidesLocally ==
    pc # "idle" =>
        \A id \in 0..MaxRows :
            LET file == store[BatchPath(output, id)]
            IN batch_output_exists(store, output, id, TRUE)
                   <=> /\ file # <<>>
                       /\ IsRemote(output) => file[1].valid

\* A resumed run has skipped a batch whose file was cut short, under a local
\* root.
ExistenceDecidesLocallyWitness ==
    /\ ~IsRemote(output)
    /\ log # <<>>
    /\ log[Len(log)].op = "exists_true"
    /\ store[BatchPath(output, log[Len(log)].batch_id)] = <<File(<<>>, FALSE)>>

\* C17: annotate_batch makes exactly one score_variants call per batch it is
\* called for, with the variants and the intervals of the batch's
\* VariantContexts in the batch's order, position by position from the same
\* VariantContext, and what it returns is the result of that call.
OneAlignedScoringCall ==
    /\ Len(score_calls)
          = Cardinality({k \in 1..Len(log) : log[k].op = "annotate"})
    /\ \A c \in 1..Len(score_calls) :
          \E b \in 1..Len(yielded) :
             LET cvs == yielded[b].interval_variants
             IN /\ yielded[b].batch_id = score_calls[c].batch_id
                /\ Len(score_calls[c].variants) = Len(cvs)
                /\ Len(score_calls[c].intervals) = Len(cvs)
                /\ \A k \in 1..Len(cvs) :
                      /\ score_calls[c].variants[k] = cvs[k].variant
                      /\ score_calls[c].intervals[k] = cvs[k].interval
    /\ \A c, d \in 1..Len(score_calls) :
          score_calls[c].batch_id = score_calls[d].batch_id => c = d
    /\ pc = "transform" =>
          annotation_result = score_calls[Len(score_calls)].outcome

\* The call for a batch of two variants has returned.
OneAlignedScoringCallWitness ==
    /\ pc = "transform"
    /\ Len(batch[1].interval_variants) = 2
    /\ batch[1].interval_variants[1].interval
          # batch[1].interval_variants[2].interval
    /\ Len(score_calls) = 2

FrameRows(frame) == {frame[k] : k \in 1..Len(frame)}

\* C9: the frame transform_batch returns, which process_batch writes, is
\* transform_output of the flattened tidy rows.
WrittenFrameIsNormalised ==
    transformed_result # Null =>
        FrameRows(transformed_result[1])
            = transform_output(
                  [k \in 1..Len(tidy_scores(annotation_result[1])[1]) |->
                      CastRow(tidy_scores(annotation_result[1])[1][k])])

\* C21: from_variant names the variant {chromosome}_{position}_{ref}_{alt},
\* and its annotation map is {batchId: b} when the batch id b is neither None
\* nor empty, and the empty map otherwise.
FromVariantNamesAndTags ==
    (p_call.kind = "from_variant" /\ Len(p_trace) = 1) =>
        LET variant == p_trace[1].value.variant
            b == p_call.arg
        IN /\ variant.name
                 = p_call.parts[1] \o <<"_">> \o IntToStr(p_call.parts[2])
                       \o <<"_">> \o p_call.parts[3] \o <<"_">>
                       \o p_call.parts[4]
           /\ variant.info
                 = IF b.kind = "none" \/ (b.kind = "str" /\ b.v = <<>>)
                   THEN {}
                   ELSE {<<"batchId", b>>}

\* The sort key of a VariantContext, read from its variant.
ContextKey(cv) ==
    Row(cv.variant.chromosome, cv.variant.position,
        cv.variant.reference_bases, cv.variant.alternate_bases)

\* C22: within every yielded batch the VariantContexts are in the canonical
\* sort order (chromosome by code point, then position, referenceAllele,
\* alternateAllele, ascending), and no variant of the batch with id k + 1
\* comes before a variant of the batch with id k in that order.
BatchesInCanonicalOrder ==
    /\ \A b \in 1..Len(yielded) :
          LET cvs == yielded[b].interval_variants
          IN \A k \in 1..(Len(cvs) - 1) :
                ~RowLess(ContextKey(cvs[k + 1]), ContextKey(cvs[k]))
    /\ \A b, c \in 1..Len(yielded) :
          yielded[c].batch_id = yielded[b].batch_id + 1 =>
              \A k \in 1..Len(yielded[b].interval_variants),
                 m \in 1..Len(yielded[c].interval_variants) :
                    ~RowLess(ContextKey(yielded[c].interval_variants[m]),
                             ContextKey(yielded[b].interval_variants[k]))

\* Batch 1 was yielded before batch 0, batch 0 holds two variants that
\* differ in the alternate allele alone, and the index had them in another
\* order.
BatchesInCanonicalOrderWitness ==
    /\ Len(yielded) = 2
    /\ yielded[1].batch_id = 1
    /\ yielded[2].batch_id = 0
    /\ Len(yielded[2].interval_variants) = 2
    /\ RowLess(ContextKey(yielded[2].interval_variants[1]),
               ContextKey(yielded[2].interval_variants[2]))
    /\ yielded[2].interval_variants[1].variant.position
          = yielded[2].interval_variants[2].variant.position
    /\ yielded[2].interval_variants[1].variant.chromosome
          = yielded[2].interval_variants[2].variant.chromosome
    /\ SortRows(variant_index) # variant_index

\* The batch ids process_batch was called for, in call order: process_batch
\* starts with annotate_batch, which the log records.
RECURSIVE ProcessedIds(_)
ProcessedIds(l) ==
    IF l = <<>> THEN <<>>
    ELSE IF Head(l).op = "annotate"
         THEN <<Head(l).batch_id>> \o ProcessedIds(Tail(l))
    ELSE ProcessedIds(Tail(l))

\* The number of batches of the sequence.
BatchCount == Cardinality(Groups(variant_index, batch_window))

\* C23: with resume off, process_batch is called for the batches in sequence
\* order, each once; when the run ends without an error it was called for
\* the first min(2, n) of the n batches in test mode and for all n batches
\* with test mode off.
CallsWithoutResume ==
    ~resume =>
        LET called == ProcessedIds(log)
        IN /\ Len(called) <= Len(yielded)
           /\ \A k \in 1..Len(called) : called[k] = yielded[k].batch_id
           /\ test_mode => Len(called) <= 2
           /\ pc = "done" =>
                 Len(called) = IF test_mode /\ BatchCount > 2 THEN 2
                               ELSE BatchCount

\* A test-mode run over three batches has ended after two calls.
CallsWithoutResumeWitness ==
    /\ ~resume
    /\ test_mode
    /\ pc = "done"
    /\ BatchCount = 3
    /\ Len(ProcessedIds(log)) = 2

\* What a store tells about batch id b under a root: the file, and the
\* answer of batch_output_exists for either outcome of the read.
StoreView(files, root, b) ==
    <<files[BatchPath(root, b)],
      batch_output_exists(files, root, b, TRUE),
      batch_output_exists(files, root, b, FALSE)>>

\* The write_batch step of the loop leaves every other batch id as it was.
WriteTouchesOneId ==
    Write =>
        \A b \in 0..MaxRows :
            b # batch[1].batch_id =>
                StoreView(store', output, b) = StoreView(store, output, b)

\* Where write_batch is about to be called for id a with the frame ta: it
\* leaves every other id b as it was, whether it returns or raises, and
\* writing a then b gives the store that writing b then a gives.
WritesCommute ==
    pc = "write" =>
        LET a == batch[1].batch_id
            ta == transformed_result[1]
            tb == OldTable
            wa == WrittenStore(store, ta, output, a)
        IN \A b \in 0..MaxRows :
              a # b =>
                  /\ StoreView(wa, output, b) = StoreView(store, output, b)
                  /\ \A f \in FailedWriteStores(store, ta, output, a) :
                        StoreView(f, output, b) = StoreView(store, output, b)
                  /\ WrittenStore(wa, tb, output, b)
                        = WrittenStore(WrittenStore(store, tb, output, b),
                                       ta, output, a)

\* C24: store operations on different batch ids are independent and commute:
\* write_batch for batch id a changes neither the file nor the
\* batch_output_exists answer of another id b under the same root, and
\* writing a then b leaves the store as writing b then a does.
WritesIndependent == []WritesCommute /\ [][WriteTouchesOneId]_vars

\* Batch 1 has been written while batch 0 has a file of an earlier run,
\* which is still as that run left it.
WritesIndependentWitness ==
    /\ pc = "written"
    /\ batch[1].batch_id = 1
    /\ store[BatchPath(output, 1)] = <<File(transformed_result[1], TRUE)>>
    /\ store[BatchPath(output, 0)] = <<File(OldTable, TRUE)>>

\* C25: the context width the driver passes to batch_variant_index, and the
\* width of the interval of every VariantContext it yields, is the value of
\* the --context-window option.
ContextWidthIsOption ==
    pc # "idle" =>
        /\ context_window = cli_context_window
        /\ \A b \in 1..Len(yielded) :
              \A k \in 1..Len(yielded[b].interval_variants) :
                 LET interval == yielded[b].interval_variants[k].interval
                 IN interval.end - interval.start = cli_context_window

\* C26: every VariantContext yielded inside the batch with id b carries that
\* id in its variant's annotation map, info = {batchId: b}, for every batch
\* id of the partition.
YieldedCarryBatchId ==
    \A b \in 1..Len(yielded) :
        \A k \in 1..Len(yielded[b].interval_variants) :
            yielded[b].interval_variants[k].variant.info
                = {<<"batchId", PyInt(yielded[b].batch_id)>>}

\* C27: in test mode only the batches at enumeration index 0 and 1 are ever
\* scored, transformed or written, whatever resume is and whichever outputs
\* exist.
TestModeOnlyFirstTwo ==
    test_mode =>
        \A e \in 1..Len(log) :
            log[e].op \in {"annotate", "transform", "write"} =>
                \E k \in 1..2 :
                    /\ k <= Len(yielded)
                    /\ yielded[k].batch_id = log[e].batch_id

\* A step of the run: none is taken once process_batch has raised, and the
\* step in which it raises for the batch at index i ends the loop, leaves the
\* file of every other batch id as it was, and comes when no batch beyond
\* index i has been yielded, checked, scored or written.
StepStopsAtFailure ==
    /\ pc # "failed"
    /\ error = Null
    /\ error' # Null =>
          /\ pc' = "failed"
          /\ Len(yielded') = loop_i' + 1
          /\ \A e \in 1..Len(log') :
                \E k \in 1..(loop_i' + 1) :
                   yielded'[k].batch_id = log'[e].batch_id
          /\ \A id \in 0..MaxRows :
                id # batch[1].batch_id =>
                    store'[BatchPath(output, id)]
                        = store[BatchPath(output, id)]

\* C28: if process_batch raises for the batch at index i the run stops
\* there: no batch at a greater index is checked for existence, scored or
\* written, and the files written for the batches before i are unchanged.
FailureStopsRun == [][StepStopsAtFailure]_vars

\* The write of the batch at index 1 has raised and left a partial file; the
\* file written for the batch at index 0 in this run is complete, and a
\* third batch is left unprocessed.
FailureStopsRunWitness ==
    /\ pc = "failed"
    /\ error = Some(StorageError)
    /\ loop_i = 1
    /\ BatchCount = 3
    /\ store[BatchPath(output, yielded[2].batch_id)] = <<File(<<>>, FALSE)>>
    /\ \E e \in 1..Len(log) :
          log[e] = Event("write", yielded[1].batch_id)
    /\ store[BatchPath(output, yielded[1].batch_id)] # <<>>
    /\ store[BatchPath(output, yielded[1].batch_id)][1].valid

\* batch_output_exists is true for every batch id of the partition.
AllOutputsExist ==
    \A g \in Groups(variant_index, batch_window) :
        batch_output_exists(store, output, g.batchId, TRUE)

\* C29: a run with test mode off that was interrupted at any point and is
\* run again with --resume on the same index, batch_window and local output
\* root terminates, unless one of its steps fails, and when it has
\* terminated batch_output_exists is true for every batch id of the
\* partition.
ResumeCompletes ==
    [](resume /\ ~IsRemote(output) =>
          <>(pc = "failed" \/ (pc = "done" /\ AllOutputsExist)))

\* The second run has ended over two batches: it skipped a batch written by
\* the first run and wrote the other one itself.
ResumeCompletesWitness ==
    /\ resume
    /\ ~IsRemote(output)
    /\ pc = "done"
    /\ BatchCount = 2
    /\ AllOutputsExist
    /\ \E e \in 1..Len(log) : log[e].op = "exists_true"
    /\ \E e \in 1..Len(log) : log[e].op = "write"

\* The number of feature structs of one feature column over a set of output
\* rows.
RECURSIVE TotalFeatures(_, _)
TotalFeatures(rows, name) ==
    IF rows = {} THEN 0
    ELSE LET o == CHOOSE r \in rows : TRUE
         IN BagTotal(o[name]) + TotalFeatures(rows \ {o}, name)

====
